---- MODULE Spec2Model ----
(***************************************************************************)
(* DesignSPHysics (src/DSPH.py): the case-state synchronisation engine.    *)
(*                                                                         *)
(* Object Registry Sync: data['simobjects'], data['export_order'] and the  *)
(* widgets that on_tree_item_selection_change drives, against the objects  *)
(* of the host (FreeCAD) document "DSPH_Case".                             *)
(* Run Monitor: on_ex_simulate and its nested handlers on_cancel,          *)
(* on_dsph_sim_finished and on_fs_change.                                  *)
(*                                                                         *)
(* Python 2 semantics are kept: list.remove removes the first occurrence   *)
(* and raises ValueError when there is none, an index out of range raises  *)
(* IndexError, a for loop over a list that is mutated in its body walks    *)
(* the list by position.  An exception that leaves a Qt slot ends that     *)
(* slot; what the slot has written so far stays written.                   *)
(*                                                                         *)
(* An object name is a pair <<base, n>>: FreeCAD names the n-th object of  *)
(* base "Box" "Box", "Box001", ...                                         *)
(***************************************************************************)
EXTENDS Integers, Sequences, FiniteSets, TLC

VARIABLES
  docObjects,    \* names of FreeCAD.getDocument("DSPH_Case").Objects
  inList,        \* names of the objects whose InList is not empty
  selection,     \* FreeCADGui.Selection.getSelection(), as names, in order
  simobjects,    \* data['simobjects']: name -> [mk, kind, fill]
  export_order,  \* data['export_order']
  rowCount,      \* objectlist_table.rowCount()
  tableRows,     \* names labelled in column 0 of objectlist_table, by row
  widgets,       \* property_table / add / remove buttons / property1, property2
  last,          \* the handler that ran last, and how it ended
  simulation_done,      \* data["simulation_done"]
  timemax,              \* data["timemax"]
  total_particles_out,  \* data["total_particles_out"]
  run_progbar,          \* run_progbar_bar.value()
  run_title,            \* run_dialog.windowTitle(), after "DualSPHysics Simulation: "
  cancel_text,          \* run_button_cancel.text()
  run_shown,            \* run_dialog is shown
  widget_state,         \* the state guiutils.widget_state_config applied last
  current_process,      \* temp_data["current_process"] and the state of that QProcess
  watched,              \* run_watcher watches the case's _Out directory
  cancel_slots,         \* on_cancel closures connected to run_button_cancel.clicked
  fs_slots,             \* on_fs_change closures connected to run_watcher.directoryChanged
  run_file,             \* Run.out: its lines and the run whose solver wrote them
  run,                  \* the simulation started last: what has happened to it
  project_path,         \* data["project_path"]
  project_name,         \* data["project_name"]
  gencase_done,         \* data["gencase_done"]
  disk,                 \* the project folders on disk, by path
  total_export_parts,   \* temp_data["total_export_parts"]
  export,               \* the export dialog, its bar and the export process
  case,                 \* the save, load or export handler that ran last
  floating_mks,         \* data["floating_mks"]: mk -> floating properties
  floatings_window,     \* the floating configuration dialog, while it is open
  export_options,       \* data["export_options"]
  additional_parameters \* data["additional_parameters"]

regvars == <<docObjects, inList, selection, simobjects, export_order,
             rowCount, tableRows, widgets>>
runvars == <<simulation_done, timemax, total_particles_out, run_progbar,
             run_title, cancel_text, run_shown, widget_state, current_process,
             watched, cancel_slots, fs_slots, run_file, run>>
casevars == <<project_path, project_name, gencase_done, disk,
              total_export_parts, export, case>>
optvars == <<floating_mks, floatings_window, export_options,
             additional_parameters>>
vars == <<regvars, last, runvars, casevars, optvars>>

----------------------------------------------------------------------------
(* Bounds of the model *)

NumBoxes == 1       \* Part::Box objects the user may create
NumFillBoxes == 1   \* FillBox groups the user may create
MaxSel == 2         \* longest selection

----------------------------------------------------------------------------
(* Names and types of host objects *)

CaseLimits == <<"Case_Limits", 0>>
Boxes == {<<"Box", i>> : i \in 0..(NumBoxes - 1)}
FillBoxes == {<<"FillBox", i>> : i \in 0..(NumFillBoxes - 1)}

\* "fillbox" in item.Name.lower()
IsFillboxName(n) == n[1] = "FillBox"
\* selection[0].TypeId in temp_data["supported_types"]: Part::Box is one
IsSupportedType(n) == n[1] \in {"Box", "Case_Limits"}
\* selection[0].TypeId == "App::DocumentObjectGroup"
IsGroupType(n) == n[1] = "FillBox"

\* str.lower() on the kind strings the program writes
Lower(s) == CASE s = "Fluid" -> "fluid"
              [] s = "Bound" -> "bound"
              [] OTHER -> s

\* property2.insertItems(0, ["Fluid", "Bound"]); property2.itemText(index)
ItemText(index) == IF index = 0 THEN "Fluid" ELSE "Bound"

\* property1.setRange(0, 240) / property1.setRange(0, 10)
BoundRangeMax == 240
FluidRangeMax == 10

\* data['simobjects']['Case_Limits'] = ["mkspecial", "typespecial", "fillspecial"];
\* the string "mkspecial" is written as a number no mk-group can take
MkSpecial == -1
CaseLimitsEntry == [mk |-> MkSpecial, kind |-> "typespecial", fill |-> "fillspecial"]

----------------------------------------------------------------------------
(* Python list and dict primitives *)

InSeq(s, x) == \E i \in 1..Len(s) : s[i] = x

\* list.remove(x) when x is in the list: the first occurrence goes
RemoveFirst(s, x) ==
  LET i == CHOOSE k \in 1..Len(s) : s[k] = x /\ \A j \in 1..(k - 1) : s[j] # x
  IN  SubSeq(s, 1, i - 1) \o SubSeq(s, i + 1, Len(s))

\* dict.pop(k, None)
Pop(d, k) == [n \in (DOMAIN d) \ {k} |-> d[n]]

\* d[k] = v
Put(d, k, v) == [n \in (DOMAIN d) \cup {k} |-> IF n = k THEN v ELSE d[n]]

\* the orders dict.keys() may list the keys of d in
RECURSIVE Perms(_)
Perms(S) ==
  IF S = {} THEN {<<>>}
  ELSE UNION {{<<x>> \o p : p \in Perms(S \ {x})} : x \in S}

Range(s) == {s[i] : i \in 1..Len(s)}

NoDup(s) == \A i, j \in 1..Len(s) : i # j => s[i] # s[j]

\* the selections of at most MaxSel objects of U
Selections(U) ==
  UNION {{s \in [1..k -> U] : NoDup(s)} : k \in 0..MaxSel}

----------------------------------------------------------------------------
(* The state a handler works on: so = data['simobjects'], eo =            *)
(* data['export_order'], rc = objectlist_table.rowCount(), rows = the      *)
(* labelled rows, w = the widgets, ab = an exception has left the handler, *)
(* early = on_tree_item_selection_change returned at its "return",         *)
(* dropped = "Detect object deletion" has dropped a key, pruned = an        *)
(* object with a parent has been taken out of the export order.            *)

Handler(so, eo, rc, rows, w) ==
  [so |-> so, eo |-> eo, rc |-> rc, rows |-> rows, w |-> w,
   ab |-> FALSE, early |-> FALSE, dropped |-> FALSE, pruned |-> FALSE]

\* property_table, addtodsph_button, removefromdsph_button .show()/.hide()
Show(w, table, add, remove) ==
  [w EXCEPT !.table = table, !.add = add, !.remove = remove]

\* property1_change(value), the slot of property1.valueChanged
property1_change(h, sel, value) ==
  IF sel = <<>> \/ sel[1] \notin DOMAIN h.so
  THEN h    \* IndexError / KeyError inside the slot: nothing is written
  ELSE [h EXCEPT !.so = Put(h.so, sel[1], [h.so[sel[1]] EXCEPT !.mk = value])]

\* QSpinBox.setValue: the value is bound to the range; valueChanged is
\* emitted when the value changes
SpinSetValue(h, sel, v) ==
  LET b == IF v > h.w.p1max THEN h.w.p1max ELSE IF v < 0 THEN 0 ELSE v
  IN  IF b = h.w.p1val THEN h
      ELSE property1_change([h EXCEPT !.w.p1val = b], sel, b)

\* QSpinBox.setRange(0, max): a value above max becomes max (valueChanged)
SpinSetRange(h, sel, max) ==
  LET h1 == [h EXCEPT !.w.p1max = max]
  IN  IF h.w.p1val > max
      THEN property1_change([h1 EXCEPT !.w.p1val = max], sel, max)
      ELSE h1

\* property2_change(index), the slot of property2.currentIndexChanged.
\* (Its pop of data["floating_mks"] is for an object that is no fillbox and
\* is of type Fluid: add_object_to_sim registers no such object.)
property2_change(h, sel, index) ==
  IF sel = <<>> \/ sel[1] \notin DOMAIN h.so
  THEN h
  ELSE LET name == sel[1]
           h1 == [h EXCEPT !.so = Put(h.so, name,
                                  [h.so[name] EXCEPT !.kind = ItemText(index)])]
       IN  IF IsFillboxName(name) THEN h1
           ELSE IF Lower(ItemText(index)) = "bound"
                THEN SpinSetRange(h1, sel, BoundRangeMax)
                ELSE SpinSetRange(h1, sel, FluidRangeMax)

\* QComboBox.setCurrentIndex: currentIndexChanged is emitted on a change
ComboSetIndex(h, sel, index) ==
  IF index = h.w.p2idx THEN h
  ELSE property2_change([h EXCEPT !.w.p2idx = index], sel, index)

\* on_tree_item_selection_change, "Show properties on table": the MKGroup
\* spin box and the type combo box.  The fill-mode combo box (property3)
\* keeps index 0 while no fill mode is edited, so setCurrentIndex(0) on it
\* emits nothing; the float/initials buttons hold no data.
ShowProperties(h, sel) ==
  LET name == sel[1]
      h1 == SpinSetValue(h, sel, h.so[name].mk)
  IN  IF IsSupportedType(name)
      THEN LET h2 == [h1 EXCEPT !.w.p2en = TRUE]
           IN  IF Lower(h2.so[name].kind) = "fluid"
               THEN SpinSetRange(ComboSetIndex(h2, sel, 0), sel, FluidRangeMax)
               ELSE IF Lower(h2.so[name].kind) = "bound"
               THEN SpinSetRange(ComboSetIndex(h2, sel, 1), sel, BoundRangeMax)
               ELSE h2
      ELSE IF IsGroupType(name) /\ IsFillboxName(name)
      THEN ComboSetIndex([h1 EXCEPT !.w.p2en = FALSE], sel, 0)
      ELSE [ComboSetIndex(h1, sel, 1) EXCEPT !.w.p2en = FALSE]

\* on_tree_item_selection_change, the buttons and the property table
ShowSelection(h, sel, inl) ==
  LET h0 == [h EXCEPT !.w.addEn = TRUE]
  IN  IF Len(sel) > 0
      THEN IF Len(sel) > 1
           THEN [h0 EXCEPT !.w = Show(h0.w, FALSE, TRUE, FALSE)]
           ELSE IF sel[1] = CaseLimits
           THEN [h0 EXCEPT !.w = Show(h0.w, FALSE, FALSE, FALSE), !.early = TRUE]
           ELSE IF sel[1] \in DOMAIN h0.so
           THEN ShowProperties([h0 EXCEPT !.w = Show(h0.w, TRUE, FALSE, TRUE)], sel)
           ELSE IF sel[1] \notin inl
           THEN [h0 EXCEPT !.w = Show(h0.w, FALSE, TRUE, FALSE)]
           ELSE [h0 EXCEPT !.w = [Show(h0.w, FALSE, TRUE, FALSE) EXCEPT !.addEn = FALSE]]
      ELSE [h0 EXCEPT !.w = Show(h0.w, FALSE, FALSE, FALSE)]

\* list.remove of each name of S, one occurrence each
RECURSIVE RemoveEach(_, _)
RemoveEach(s, S) ==
  IF S = {} THEN s
  ELSE LET x == CHOOSE y \in S : TRUE
       IN  RemoveEach(IF InSeq(s, x) THEN RemoveFirst(s, x) ELSE s, S \ {x})

\* "Detect object deletion" without data["export_order"].remove(key)
DetectDeletion_KeepOrder(h, doc) ==
  LET missing == {k \in DOMAIN h.so : k \notin doc}
  IN  {[h EXCEPT !.so = [n \in (DOMAIN h.so) \ missing |-> h.so[n]],
                 !.dropped = (missing # {})]}

\* "Detect object deletion": for key in data['simobjects'].keys(): a key
\* that is not a document object is popped and removed from the export
\* order; remove raises ValueError for a key the export order does not
\* hold.  keys() lists the keys in the dict's own order, so the keys
\* handled before the exception are any of the others.
DetectDeletion(h, doc) ==
  LET missing == {k \in DOMAIN h.so : k \notin doc}
      bad == {k \in missing : ~InSeq(h.eo, k)}
      Drop(S) == [n \in (DOMAIN h.so) \ S |-> h.so[n]]
  IN  IF bad = {}
      THEN {[h EXCEPT !.so = Drop(missing), !.eo = RemoveEach(h.eo, missing),
                      !.dropped = (missing # {})]}
      ELSE {[h EXCEPT !.so = Drop(S \cup {b}), !.eo = RemoveEach(h.eo, S),
                      !.dropped = TRUE, !.ab = TRUE] :
              S \in SUBSET (missing \ bad), b \in bad}

\* the loop over data["export_order"] without "if contextObject.Name ==
\* 'Case_Limits': continue"
RECURSIVE ListLoop_NoSkip(_, _, _, _, _, _)
ListLoop_NoSkip(i, eo, withParent, labels, doc, inl) ==
  IF i > Len(eo) THEN [eo |-> eo, withParent |-> withParent, labels |-> labels]
  ELSE LET key == eo[i]
       IN  IF key \notin doc
           THEN ListLoop_NoSkip(i + 1, RemoveFirst(eo, key), withParent, labels, doc, inl)
           ELSE IF key \in inl
           THEN ListLoop_NoSkip(i + 1, eo, Append(withParent, key), labels, doc, inl)
           ELSE ListLoop_NoSkip(i + 1, eo, withParent, Append(labels, key), doc, inl)

\* for key in data["export_order"]: ... ; the list is walked by position
\* i (from 1), also while data["export_order"].remove(key) shortens it
RECURSIVE ListLoop(_, _, _, _, _, _)
ListLoop(i, eo, withParent, labels, doc, inl) ==
  IF i > Len(eo) THEN [eo |-> eo, withParent |-> withParent, labels |-> labels]
  ELSE LET key == eo[i]
       IN  IF key \notin doc
           THEN ListLoop(i + 1, RemoveFirst(eo, key), withParent, labels, doc, inl)
           ELSE IF key \in inl
           THEN ListLoop(i + 1, eo, Append(withParent, key), labels, doc, inl)
           ELSE IF key = CaseLimits
           THEN ListLoop(i + 1, eo, withParent, labels, doc, inl)
           ELSE ListLoop(i + 1, eo, withParent, Append(labels, key), doc, inl)

\* the loop over objectsWithParent taking every other element
RECURSIVE PruneLoop_EveryOther(_, _, _)
PruneLoop_EveryOther(j, withParent, h) ==
  IF j > Len(withParent) THEN h
  ELSE LET each == withParent[j]
           h1 == [h EXCEPT !.so = Pop(h.so, each)]
       IN  IF InSeq(h1.eo, each)
           THEN PruneLoop_EveryOther(j + 2, withParent,
                  [h1 EXCEPT !.eo = RemoveFirst(h1.eo, each), !.pruned = TRUE])
           ELSE [h1 EXCEPT !.ab = TRUE]

\* for each in objectsWithParent: data["simobjects"].pop(each, None);
\* data["export_order"].remove(each)
RECURSIVE PruneLoop(_, _, _)
PruneLoop(j, withParent, h) ==
  IF j > Len(withParent) THEN h
  ELSE LET each == withParent[j]
           h1 == [h EXCEPT !.so = Pop(h.so, each)]
       IN  IF InSeq(h1.eo, each)
           THEN PruneLoop(j + 1, withParent,
                          [h1 EXCEPT !.eo = RemoveFirst(h1.eo, each), !.pruned = TRUE])
           ELSE [h1 EXCEPT !.ab = TRUE]

\* QTableWidget.setRowCount(n) ignores a negative n
SetRowCount(rc, n) == IF n < 0 THEN rc ELSE n

\* "Update dsph objects list" for one order eo0 of the export order
UpdateListFrom(h, eo0, doc, inl) ==
  LET rc1 == SetRowCount(h.rc, Len(eo0) - 1)
      l == ListLoop(1, eo0, <<>>, <<>>, doc, inl)
      \* setCellWidget on a row the table does not have is ignored
      shown == SubSeq(l.labels, 1, IF Len(l.labels) < rc1 THEN Len(l.labels) ELSE rc1)
  IN  PruneLoop(1, l.withParent, [h EXCEPT !.eo = l.eo, !.rc = rc1, !.rows = shown])

\* if len(data["export_order"]) == 0: data["export_order"] = data["simobjects"].keys()
UpdateList(h, doc, inl) ==
  IF Len(h.eo) = 0
  THEN {UpdateListFrom(h, keys, doc, inl) : keys \in Perms(DOMAIN h.so)}
  ELSE {UpdateListFrom(h, h.eo, doc, inl)}

\* on_tree_item_selection_change(): the states it may end in
on_tree_item_selection_change(h, sel, doc, inl) ==
  UNION {IF d.ab THEN {d}
         ELSE LET s == ShowSelection(d, sel, inl)
              IN  IF s.early THEN {s} ELSE UpdateList(s, doc, inl)
         : d \in DetectDeletion(h, doc)}

----------------------------------------------------------------------------
(* Handlers of the object registry *)

\* the smallest integer from i to top that is not in used; <<>> when
\* there is none
RECURSIVE FirstNotIn(_, _, _)
FirstNotIn(i, used, top) ==
  IF i > top THEN <<>>
  ELSE IF i \notin used THEN <<i>>
  ELSE FirstNotIn(i + 1, used, top)

\* utils.get_first_mk_not_used(objtype, data): the smallest integer of the
\* kind's range (fluid 0-10, bound 0-240) that no registered object of that
\* kind holds; None, written <<>>, when every number is taken
get_first_mk_not_used(objtype, so) ==
  LET used == {so[n].mk : n \in {m \in DOMAIN so : Lower(so[m].kind) = objtype}}
      top == IF objtype = "fluid" THEN FluidRangeMax ELSE BoundRangeMax
  IN  FirstNotIn(0, used, top)

\* mktoput = 0, whatever is registered
MkToPut_Zero(objtype, so) == 0

\* mktoput = utils.get_first_mk_not_used(...); if not mktoput: mktoput = 0
MkToPut(objtype, so) ==
  LET r == get_first_mk_not_used(objtype, so)
  IN  IF r = <<>> THEN 0 ELSE IF r[1] = 0 THEN 0 ELSE r[1]

\* the kind add_object_to_sim gives a new object
KindOfNew(name) == IF IsFillboxName(name) THEN "fluid" ELSE "bound"

\* the body of the loop without "if item.Name not in data['simobjects'].keys()"
AddItem_Again(h, item, inl) ==
  IF item = CaseLimits THEN h
  ELSE IF item \in inl THEN h
  ELSE [h EXCEPT !.so = Put(h.so, item, [mk |-> MkToPut(KindOfNew(item), h.so),
                                         kind |-> KindOfNew(item), fill |-> "full"]),
                 !.eo = Append(h.eo, item)]

\* the body of "for item in selection:" of add_object_to_sim
AddItem(h, item, inl) ==
  IF item = CaseLimits THEN h
  ELSE IF item \in inl THEN h
  ELSE IF item \notin DOMAIN h.so
  THEN [h EXCEPT !.so = Put(h.so, item, [mk |-> MkToPut(KindOfNew(item), h.so),
                                         kind |-> KindOfNew(item), fill |-> "full"]),
                 !.eo = Append(h.eo, item)]
  ELSE h

RECURSIVE AddLoop(_, _, _, _)
AddLoop(i, sel, h, inl) ==
  IF i > Len(sel) THEN h ELSE AddLoop(i + 1, sel, AddItem(h, sel[i], inl), inl)

\* add_object_to_sim() from the button: name is None
add_object_to_sim(h, sel, doc, inl) ==
  on_tree_item_selection_change(AddLoop(1, sel, h, inl), sel, doc, inl)

\* the body of "for item in selection:" of remove_object_from_sim
RemoveItem(h, item) ==
  IF item = CaseLimits THEN h
  ELSE [h EXCEPT !.eo = IF InSeq(h.eo, item) THEN RemoveFirst(h.eo, item) ELSE h.eo,
                 !.so = Pop(h.so, item)]

RECURSIVE RemoveLoop(_, _, _)
RemoveLoop(i, sel, h) ==
  IF i > Len(sel) THEN h ELSE RemoveLoop(i + 1, sel, RemoveItem(h, sel[i]))

remove_object_from_sim(h, sel, doc, inl) ==
  on_tree_item_selection_change(RemoveLoop(1, sel, h), sel, doc, inl)

\* for element in data["export_order"]: if element == prev_elem:
\*     new_order.append(curr_elem); new_order.append(element)
RECURSIVE OrderUp(_, _, _, _)
OrderUp(i, eo, prev, curr) ==
  IF i > Len(eo) THEN <<>>
  ELSE (IF eo[i] = prev THEN <<curr, eo[i]>> ELSE <<eo[i]>>)
       \o OrderUp(i + 1, eo, prev, curr)

\* for element in data["export_order"]: new_order.append(element);
\*     if element == next_elem: new_order.append(curr_elem)
RECURSIVE OrderDown(_, _, _, _)
OrderDown(i, eo, next, curr) ==
  IF i > Len(eo) THEN <<>>
  ELSE (IF eo[i] = next THEN <<eo[i], curr>> ELSE <<eo[i]>>)
       \o OrderDown(i + 1, eo, next, curr)

\* on_cell_click(row, column) up to its call of
\* on_tree_item_selection_change; Python's list index k is position k + 1
MoveOrder(h, row, column) ==
  IF Cardinality(DOMAIN h.so) < row + 2
  THEN [h EXCEPT !.ab = TRUE]      \* data["simobjects"].keys()[row + 1]
  ELSE IF column = 1
  THEN IF Len(h.eo) < row + 2
       THEN [h EXCEPT !.ab = TRUE] \* data["export_order"][row + 1]
       ELSE LET curr == h.eo[row + 2]
                prev == h.eo[row + 1]
            IN  [h EXCEPT !.eo = OrderUp(1, RemoveFirst(h.eo, curr), prev, curr)]
  ELSE IF column = 2
  THEN IF Len(h.eo) < row + 3
       THEN [h EXCEPT !.ab = TRUE] \* data["export_order"][row + 2]
       ELSE LET curr == h.eo[row + 2]
                next == h.eo[row + 3]
            IN  [h EXCEPT !.eo = OrderDown(1, RemoveFirst(h.eo, curr), next, curr)]
  ELSE h

on_cell_click(h, row, column, sel, doc, inl) ==
  LET m == MoveOrder(h, row, column)
  IN  IF m.ab THEN {m} ELSE on_tree_item_selection_change(m, sel, doc, inl)

----------------------------------------------------------------------------
(* The state machine of the object registry *)

Current == Handler(simobjects, export_order, rowCount, tableRows, widgets)

\* what a handler that ended in h leaves in data and in the widgets
Leaves(h) ==
  /\ simobjects' = h.so
  /\ export_order' = h.eo
  /\ rowCount' = h.rc
  /\ tableRows' = h.rows
  /\ widgets' = h.w

\* last: op names the handler; row, col are the clicked cell; ab, early,
\* dropped, pruned are the handler's; again says that the handler before
\* ended in a completed on_tree_item_selection_change and that neither the
\* document nor the selection has changed since; prevChanged says that the
\* handler before dropped or pruned an object
EndsInReconcile(l) ==
  l.op \in {"new", "load", "reconcile", "add", "remove", "click"} /\ ~l.ab

Ran(op, row, column, h) ==
  last' = [op |-> op, row |-> row, col |-> column, ab |-> h.ab, early |-> h.early,
           dropped |-> h.dropped, pruned |-> h.pruned,
           again |-> (EndsInReconcile(last) /\ selection' = selection
                      /\ docObjects' = docObjects /\ inList' = inList),
           prevChanged |-> (last.dropped \/ last.pruned)]

HostActed ==
  last' = [op |-> "host", row |-> -1, col |-> -1, ab |-> FALSE, early |-> FALSE,
           dropped |-> FALSE, pruned |-> FALSE, again |-> FALSE,
           prevChanged |-> FALSE]

\* the widgets as the script builds them: everything hidden,
\* property1.setRange(0, 240), the combo box on its first item
InitWidgets ==
  [table |-> FALSE, add |-> FALSE, addEn |-> TRUE, remove |-> FALSE,
   p1max |-> BoundRangeMax, p1val |-> 0, p2idx |-> 0, p2en |-> TRUE]

\* utils.get_default_data(): the data and temp_data of a new case, as far
\* as the handlers modelled here read them
get_default_data ==
  [simobjects |-> <<>>, export_order |-> <<>>, simulation_done |-> FALSE,
   timemax |-> -1, total_particles_out |-> 0, current_process |-> "None",
   project_path |-> "", project_name |-> "", gencase_done |-> FALSE,
   total_export_parts |-> 0, floating_mks |-> <<>>, export_options |-> "",
   additional_parameters |-> ""]

\* on_new_case(): utils.create_dsph_document() leaves a document that holds
\* Case_Limits alone, with nothing selected
NewCase(w, rc, rows) ==
  on_tree_item_selection_change(
    Handler(Put(get_default_data.simobjects, CaseLimits, CaseLimitsEntry),
            get_default_data.export_order, rc, rows, w),
    <<>>, {CaseLimits}, {})

\* run: n counts the simulations started; cancelled says that the cancel
\* button was pressed while the solver ran; exit and exception are what
\* on_dsph_sim_finished was given (exit -1: not finished); fs says what the
\* step just taken found when it ran on_fs_change ("none": it ran no
\* on_fs_change, "unreadable": open() failed, "empty", "read"); raised says
\* that an exception left on_fs_change in that step
Started(n) ==
  [n |-> n, cancelled |-> FALSE, exit |-> -1, exception |-> FALSE,
   fs |-> "none", raised |-> FALSE]

NoRun == Started(0)

\* run_dialog.setWindowTitle("DualSPHysics Simulation: " + text); pct is the
\* number that on_fs_change formats into the text
Title(text, pct) == [text |-> text, pct |-> pct]

\* the run dialog and the run watcher as the script builds them, with the
\* run state of utils.get_default_data(); no Run.out exists
InitRunIn(ws) ==
  /\ simulation_done = get_default_data.simulation_done
  /\ timemax = get_default_data.timemax
  /\ total_particles_out = get_default_data.total_particles_out
  /\ current_process = get_default_data.current_process
  /\ run_progbar = 0
  /\ run_title = Title("0%", 0)
  /\ cancel_text = "Cancel Simulation"
  /\ run_shown = FALSE
  /\ widget_state = ws
  /\ watched = FALSE
  /\ cancel_slots = 0
  /\ fs_slots = 0
  /\ run_file = [by |-> 0, lines |-> <<>>]
  /\ run = NoRun

InitRun == InitRunIn("new case")

\* the paths a file dialog can return, besides "" (cancelled)
Folders == {"/c/case", "/c/my case"}

\* those of them that hold a space
SpacedFolders == {"/c/my case"}

\* a test for spaces that finds none
HasSpace_Never(p) == FALSE

\* " " in save_name
HasSpace(p) == p \in SpacedFolders

\* save_name.split('/')[-1]
NameOf(p) ==
  IF p = "/c/case" THEN "case" ELSE IF p = "/c/my case" THEN "my case" ELSE ""

\* the numbers N of the files Part_<N>.bi4 a solver run can write
PartNums == {1, 3, 7}

\* what pickle.dump(data, ...) writes of the data modelled here
Pickle(so, eo, sd, tm, tpo, gd, fm, xo, ap) ==
  [simobjects |-> so, export_order |-> eo, simulation_done |-> sd,
   timemax |-> tm, total_particles_out |-> tpo, gencase_done |-> gd,
   floating_mks |-> fm, export_options |-> xo, additional_parameters |-> ap]

\* a project folder: saved says that casedata.dsphdata is there with the
\* data blob, fcstd that DSPH_Case.FCStd is there with the document doc;
\* parts are the numbers of the Part_<N>.bi4 files of its _Out directory
Folder(saved, fcstd, doc, blob, parts) ==
  [saved |-> saved, fcstd |-> fcstd, doc |-> doc, blob |-> blob, parts |-> parts]

NewCaseDoc == [objects |-> {CaseLimits}, inList |-> {}]

NewCaseBlob(gd) ==
  Pickle(Put(get_default_data.simobjects, CaseLimits, CaseLimitsEntry),
         get_default_data.export_order, get_default_data.simulation_done,
         get_default_data.timemax, get_default_data.total_particles_out, gd,
         get_default_data.floating_mks, get_default_data.export_options,
         get_default_data.additional_parameters)

NoFolder == Folder(FALSE, FALSE, NewCaseDoc, NewCaseBlob(FALSE), {})

\* case: seq flips each time on_save_case, on_load_case or on_export runs;
\* op names the handler, name is the path it worked on and outcome how it
\* ended; gencase says that it started the GenCase process, closed that it
\* closed the open documents, read that it read casedata.dsphdata
CaseOp(seq, op, name, outcome, gencase, closed, read) ==
  [seq |-> seq, op |-> op, name |-> name, outcome |-> outcome,
   gencase |-> gencase, closed |-> closed, read |-> read]

CaseRan(op, name, outcome, gencase, closed, read) ==
  case' = CaseOp(1 - case.seq, op, name, outcome, gencase, closed, read)

\* the options of a new case; the floating configuration dialog is closed
InitOptions ==
  /\ floating_mks = get_default_data.floating_mks
  /\ export_options = get_default_data.export_options
  /\ additional_parameters = get_default_data.additional_parameters
  /\ floatings_window = [open |-> FALSE, target_mk |-> 0, closed |-> "none",
                         props |-> "none"]

\* the export dialog as the script builds it (n counts the exports started,
\* max and value are those of export_progbar_bar, proc is the state of
\* temp_data["current_export_process"], args the arguments it was started
\* with); no handler has run
InitExport ==
  /\ export = [n |-> 0, max |-> 100, value |-> 0, shown |-> FALSE, proc |-> "None",
               args |-> <<>>]
  /\ total_export_parts = get_default_data.total_export_parts
  /\ case = CaseOp(0, "none", "", "none", FALSE, FALSE, FALSE)
  /\ InitOptions

\* a project saved in an earlier session and moved since: its document
\* holds the boxes, none of them added to the simulation
MovedDoc == [objects |-> {CaseLimits} \cup Boxes, inList |-> {}]

\* a new case that was never saved; the moved project lies in the folder
\* whose path holds a space
InitCase ==
  /\ project_path = get_default_data.project_path
  /\ project_name = get_default_data.project_name
  /\ gencase_done = get_default_data.gencase_done
  /\ disk = [f \in Folders |->
               IF f \in SpacedFolders
               THEN Folder(TRUE, TRUE, MovedDoc, NewCaseBlob(FALSE), {})
               ELSE NoFolder]
  /\ InitExport

\* the new case saved to "/c/case", with GenCase run on it
InitSaved ==
  /\ project_path = "/c/case"
  /\ project_name = NameOf("/c/case")
  /\ gencase_done = TRUE
  /\ disk = [f \in Folders |->
               IF f = "/c/case"
               THEN Folder(TRUE, TRUE, NewCaseDoc, NewCaseBlob(TRUE), {})
               ELSE NoFolder]
  /\ InitExport

InitRegistry(doc) ==
  /\ docObjects = doc
  /\ inList = {}
  /\ selection = <<>>
  /\ \E h \in NewCase(InitWidgets, 0, <<>>) :
       /\ simobjects = h.so
       /\ export_order = h.eo
       /\ rowCount = h.rc
       /\ tableRows = h.rows
       /\ widgets = h.w
  /\ last = [op |-> "new", row |-> -1, col |-> -1, ab |-> FALSE, early |-> FALSE,
             dropped |-> FALSE, pruned |-> FALSE, again |-> FALSE,
             prevChanged |-> FALSE]

\* the state New Case leaves
Init == InitRegistry({CaseLimits}) /\ InitRun /\ InitCase

\* the state in which the simulation can be started: the case is saved
InitSim == InitRegistry({CaseLimits}) /\ InitRunIn("gencase done") /\ InitSaved

on_new_case ==
  /\ docObjects' = {CaseLimits}
  /\ inList' = {}
  /\ selection' = <<>>
  /\ \E h \in NewCase(widgets, rowCount, tableRows) :
       Leaves(h) /\ Ran("new", -1, -1, h)
  /\ simulation_done' = get_default_data.simulation_done
  /\ timemax' = get_default_data.timemax
  /\ total_particles_out' = get_default_data.total_particles_out
  /\ current_process' = get_default_data.current_process
  /\ widget_state' = "new case"
  /\ project_path' = get_default_data.project_path
  /\ project_name' = get_default_data.project_name
  /\ gencase_done' = get_default_data.gencase_done
  /\ total_export_parts' = get_default_data.total_export_parts
  /\ floating_mks' = get_default_data.floating_mks
  /\ export_options' = get_default_data.export_options
  /\ additional_parameters' = get_default_data.additional_parameters
  /\ UNCHANGED <<run_progbar, run_title, cancel_text, run_shown, watched,
                 cancel_slots, fs_slots, run_file, run, disk, export, case,
                 floatings_window>>

\* the user creates an object in the document
HostCreate ==
  \E n \in (Boxes \cup FillBoxes) \ docObjects :
    /\ docObjects' = docObjects \cup {n}
    /\ UNCHANGED <<inList, selection, simobjects, export_order, rowCount,
                   tableRows, widgets, runvars, casevars, optvars>>
    /\ HostActed

\* an object becomes the child of another (a compound, a group)
HostReparent ==
  \E n \in docObjects \ inList :
    /\ inList' = inList \cup {n}
    /\ UNCHANGED <<docObjects, selection, simobjects, export_order, rowCount,
                   tableRows, widgets, runvars, casevars, optvars>>
    /\ HostActed

\* the tree's itemSelectionChanged with the selection s, drawn from U
SelectionChangedTo(U) ==
  \E s \in Selections(U) :
    /\ selection' = s
    /\ UNCHANGED <<docObjects, inList, runvars, casevars, optvars>>
    /\ \E h \in on_tree_item_selection_change(Current, s, docObjects, inList) :
         Leaves(h) /\ Ran("reconcile", -1, -1, h)

TreeSelectionChanged == SelectionChangedTo(docObjects)

SelectSeqWithout(s, n) == SelectSeq(s, LAMBDA x : x # n)

\* an object is deleted from the document; a selected one leaves the
\* selection, which the tree reports
HostDelete ==
  \E n \in docObjects :
    /\ docObjects' = docObjects \ {n}
    /\ inList' = inList \ {n}
    /\ selection' = SelectSeqWithout(selection, n)
    /\ UNCHANGED <<runvars, casevars, optvars>>
    /\ IF InSeq(selection, n)
       THEN \E h \in on_tree_item_selection_change(Current, selection', docObjects', inList') :
              Leaves(h) /\ Ran("reconcile", -1, -1, h)
       ELSE /\ UNCHANGED <<simobjects, export_order, rowCount, tableRows, widgets>>
            /\ HostActed

\* addtodsph_button.clicked: the button is shown and enabled
AddClicked ==
  /\ widgets.add /\ widgets.addEn
  /\ UNCHANGED <<docObjects, inList, selection, runvars, casevars, optvars>>
  /\ \E h \in add_object_to_sim(Current, selection, docObjects, inList) :
       Leaves(h) /\ Ran("add", -1, -1, h)

\* removefromdsph_button.clicked: the button is shown
RemoveClicked ==
  /\ widgets.remove
  /\ UNCHANGED <<docObjects, inList, selection, runvars, casevars, optvars>>
  /\ \E h \in remove_object_from_sim(Current, selection, docObjects, inList) :
       Leaves(h) /\ Ran("remove", -1, -1, h)

\* objectlist_table.cellClicked(row, column): any cell of the table
CellClicked ==
  \E row \in 0..(rowCount - 1), column \in 0..2 :
    /\ UNCHANGED <<docObjects, inList, selection, runvars, casevars, optvars>>
    /\ \E h \in on_cell_click(Current, row, column, selection, docObjects, inList) :
         Leaves(h) /\ Ran("click", row, column, h)

Next ==
  \/ on_new_case
  \/ HostCreate
  \/ HostReparent
  \/ HostDelete
  \/ TreeSelectionChanged
  \/ AddClicked
  \/ RemoveClicked
  \/ CellClicked

Spec == Init /\ [][Next]_vars

----------------------------------------------------------------------------
(* The order table: the document holds Case_Limits and NumMoveBoxes boxes, *)
(* all registered; the user selects objects and clicks cells of the table. *)

NumMoveBoxes == 3

MoveBoxes == {<<"Box", i>> : i \in 0..(NumMoveBoxes - 1)}

\* Box, Box001, ... in the order of their creation
BoxSeq(n) == [i \in 1..n |-> <<"Box", i - 1>>]

\* the state after New Case, the creation of the objects of doc, their
\* selection in the order sel and a click on the add button
InitAdded(doc, sel) ==
  /\ docObjects = doc
  /\ inList = {}
  /\ selection = sel
  /\ \E h0 \in NewCase(InitWidgets, 0, <<>>) :
       \E h \in add_object_to_sim(h0, sel, doc, {}) :
         /\ simobjects = h.so
         /\ export_order = h.eo
         /\ rowCount = h.rc
         /\ tableRows = h.rows
         /\ widgets = h.w
         /\ last = [op |-> "add", row |-> -1, col |-> -1, ab |-> h.ab,
                    early |-> h.early, dropped |-> h.dropped, pruned |-> h.pruned,
                    again |-> FALSE, prevChanged |-> FALSE]

InitMove ==
  InitAdded({CaseLimits} \cup MoveBoxes, BoxSeq(NumMoveBoxes)) /\ InitRun /\ InitCase

NextMove ==
  \/ TreeSelectionChanged
  \/ CellClicked

SpecMove == InitMove /\ [][NextMove]_vars

----------------------------------------------------------------------------
(* The mk numbers: NumRegistered fill boxes are registered already and     *)
(* stay so; the user selects, adds and removes Case_Limits, the boxes and  *)
(* NumMkFillBoxes more fill boxes.                                         *)

NumRegistered == 10
NumMkFillBoxes == 2

\* FillBox, FillBox001, ... in the order of their creation
FillBoxSeq(n) == [i \in 1..n |-> <<"FillBox", i - 1>>]

MkFillBoxes ==
  {<<"FillBox", i>> : i \in NumRegistered..(NumRegistered + NumMkFillBoxes - 1)}

\* the objects the user selects
MkActive == {CaseLimits} \cup Boxes \cup MkFillBoxes

InitMk ==
  /\ InitAdded(MkActive \cup Range(FillBoxSeq(NumRegistered)), FillBoxSeq(NumRegistered))
  /\ InitRun
  /\ InitCase

MkSelectionChanged == SelectionChangedTo(MkActive)

NextMk ==
  \/ MkSelectionChanged
  \/ AddClicked
  \/ RemoveClicked

SpecMk == InitMk /\ [][NextMk]_vars

----------------------------------------------------------------------------
(* The run monitor: on_ex_simulate and its nested handlers, for a saved    *)
(* case whose registry stays as it is.  temp_data["current_process"] is    *)
(* "None" (no process yet), "" (the start failed), "running", "killed"     *)
(* (kill() was called, finished has not been delivered yet) or "exited".   *)

MaxRuns == 2    \* simulations started in a session
MaxLines == 3   \* lines the solver writes to Run.out

\* the lines of Run.out that on_fs_change tells apart: a "TimeMax=<v>"
\* line, a line holding "Part_", a "Particles out: ... (total: <v>)" line
\* and any other line.  on_fs_change reads the time of a Part_ line as
\* float(t + "." + d): t is the last blank-separated token before the first
\* "." of the line and d the two characters after that ".".  In
\* "Part_0005      5.00 ..." the time is a column of its own and t is "5";
\* in "Part_0005.00  ..." it is glued to the Part_ token and t is
\* "Part_0005".
Line(kind, v, glued) == [kind |-> kind, v |-> v, glued |-> glued]

Lines ==
  {Line("TimeMax", 10, FALSE), Line("TimeMax", 20, FALSE),
   Line("Part", 5, FALSE), Line("Part", 5, TRUE),
   Line("Out", 3, FALSE), Line("other", 0, FALSE)}

\* the first "TimeMax=" line of the file from line i on: <<v>>, or <<>>
RECURSIVE FirstTimeMax(_, _)
FirstTimeMax(i, lines) ==
  IF i > Len(lines) THEN <<>>
  ELSE IF lines[i].kind = "TimeMax" THEN <<lines[i].v>>
  ELSE FirstTimeMax(i + 1, lines)

\* QProgressBar.setValue with the range 0..100: a value outside is ignored
BarSetValue(bar, v) == IF v < 0 \/ v > 100 THEN bar ELSE v

\* on_fs_change without the test data["timemax"] == -1: every TimeMax=
\* line is assigned, the last one stays
RECURSIVE LastTimeMax(_, _)
LastTimeMax(i, lines) ==
  IF i < 1 THEN <<>>
  ELSE IF lines[i].kind = "TimeMax" THEN <<lines[i].v>>
  ELSE LastTimeMax(i - 1, lines)

on_fs_change_EveryTimeMax(m, lines, readable) ==
  IF ~readable THEN [m EXCEPT !.raised = TRUE]
  ELSE LET last_tm == LastTimeMax(Len(lines), lines)
           m1 == IF last_tm # <<>> THEN [m EXCEPT !.tm = last_tm[1]] ELSE m
       IN  IF lines = <<>> THEN [m1 EXCEPT !.raised = TRUE]
           ELSE LET l == lines[Len(lines)]
                    current_value == (l.v * 100) \div m1.tm
                IN  IF l.kind = "Part"
                    THEN IF l.glued
                         THEN [m1 EXCEPT !.raised = TRUE]
                         ELSE [m1 EXCEPT !.bar = BarSetValue(m1.bar, current_value),
                                         !.title = Title("%", current_value)]
                    ELSE IF l.kind = "Out"
                    THEN [m1 EXCEPT !.out = l.v]
                    ELSE m1

\* on_fs_change(path) on m = [tm, out, bar, title, raised]:
\* data["timemax"], data["total_particles_out"], the bar, the title and
\* whether an exception has left the handler.  When open() fails the
\* except clause leaves run_file_data unbound and the for loop raises
\* UnboundLocalError; [-1] of an empty list raises IndexError; float() of
\* a token that starts with Part_ raises ValueError.
on_fs_change(m, lines, readable) ==
  IF ~readable THEN [m EXCEPT !.raised = TRUE]
  ELSE LET first == FirstTimeMax(1, lines)
           m1 == IF m.tm = -1 /\ first # <<>> THEN [m EXCEPT !.tm = first[1]] ELSE m
       IN  IF lines = <<>> THEN [m1 EXCEPT !.raised = TRUE]
           ELSE LET l == lines[Len(lines)]
                    current_value == (l.v * 100) \div m1.tm
                IN  IF l.kind = "Part"
                    THEN IF l.glued
                         THEN [m1 EXCEPT !.raised = TRUE]
                         ELSE [m1 EXCEPT !.bar = BarSetValue(m1.bar, current_value),
                                         !.title = Title("%", current_value)]
                    ELSE IF l.kind = "Out"
                    THEN [m1 EXCEPT !.out = l.v]
                    ELSE m1

\* on_cancel() on c = [proc, shown, ws]: kill() of "" raises AttributeError
on_cancel(c) ==
  IF c.proc = "" THEN c
  ELSE [proc |-> IF c.proc = "running" THEN "killed" ELSE c.proc,
        shown |-> FALSE, ws |-> "sim cancel"]

\* a signal runs every slot connected to it, in turn
RECURSIVE CancelSlots(_, _)
CancelSlots(k, c) == IF k = 0 THEN c ELSE CancelSlots(k - 1, on_cancel(c))

RECURSIVE FsSlots(_, _, _, _)
FsSlots(k, m, lines, readable) ==
  IF k = 0 THEN m ELSE FsSlots(k - 1, on_fs_change(m, lines, readable), lines, readable)

\* the simulate button; the solver starts or fails to start.  The button
\* is taken to be disabled while a solver runs (the "sim start" state of
\* guiutils.widget_state_config) and while the case has no folder, where
\* os.listdir of its _Out directory would raise.  The files of that
\* directory whose names start with Part are removed.
on_ex_simulate ==
  /\ current_process \notin {"running", "killed"}
  /\ project_path \in Folders
  /\ run.n < MaxRuns
  /\ \E started \in BOOLEAN :
       /\ current_process' = IF started THEN "running" ELSE ""
       /\ watched' = started
       /\ run_shown' = (started \/ run_shown)
  /\ run_progbar' = 0
  /\ simulation_done' = FALSE
  /\ widget_state' = "sim start"
  /\ cancel_text' = "Cancel Simulation"
  /\ run_title' = Title("0%", 0)
  /\ cancel_slots' = cancel_slots + 1
  /\ fs_slots' = fs_slots + 1
  /\ run' = Started(run.n + 1)
  /\ disk' = [disk EXCEPT ![project_path].parts = {}]
  /\ UNCHANGED <<timemax, total_particles_out, run_file, regvars, last,
                 project_path, project_name, gencase_done, total_export_parts,
                 export, case, optvars>>

\* run_button_cancel.clicked, while the run dialog is shown
CancelClicked ==
  /\ run_shown
  /\ LET c == CancelSlots(cancel_slots,
                          [proc |-> current_process, shown |-> run_shown,
                           ws |-> widget_state])
     IN  /\ current_process' = c.proc
         /\ run_shown' = c.shown
         /\ widget_state' = c.ws
  /\ run' = [run EXCEPT !.cancelled = (run.cancelled \/ current_process = "running"),
                         !.fs = "none", !.raised = FALSE]
  /\ UNCHANGED <<simulation_done, timemax, total_particles_out, run_progbar,
                 run_title, cancel_text, watched, cancel_slots, fs_slots,
                 run_file, regvars, last, casevars, optvars>>

\* on_dsph_sim_finished variants used to test the properties below
on_dsph_sim_finished_NoDone(f, exitCode, exception) ==
  LET f1 == [f EXCEPT !.title = Title("Complete", 0), !.bar = BarSetValue(f.bar, 100)]
  IN  IF exitCode = 0 THEN [f1 EXCEPT !.ws = "sim finished"]
      ELSE IF exception
      THEN [f1 EXCEPT !.title = Title("Error", 0), !.bar = BarSetValue(f1.bar, 0),
                      !.shown = FALSE, !.ws = "sim error"]
      ELSE f1

on_dsph_sim_finished_AnyError(f, exitCode, exception) ==
  LET f1 == [f EXCEPT !.title = Title("Complete", 0), !.bar = BarSetValue(f.bar, 100)]
  IN  IF exitCode = 0 THEN [f1 EXCEPT !.done = TRUE, !.ws = "sim finished"]
      ELSE [f1 EXCEPT !.title = Title("Error", 0), !.bar = BarSetValue(f1.bar, 0),
                      !.shown = FALSE, !.ws = "sim error"]

\* on_dsph_sim_finished(exitCode) on f = [title, bar, done, ws, shown]: the
\* window title, the bar, data["simulation_done"], the widget state and
\* whether the run dialog is shown; exception says that the captured output
\* holds "exception" in any letter case
on_dsph_sim_finished(f, exitCode, exception) ==
  LET f1 == [f EXCEPT !.title = Title("Complete", 0), !.bar = BarSetValue(f.bar, 100)]
  IN  IF exitCode = 0 THEN [f1 EXCEPT !.done = TRUE, !.ws = "sim finished"]
      ELSE IF exception
      THEN [f1 EXCEPT !.title = Title("Error", 0), !.bar = BarSetValue(f1.bar, 0),
                      !.shown = FALSE, !.ws = "sim error"]
      ELSE f1

\* process.finished: the solver process has ended, by itself or killed
ProcessFinished ==
  /\ current_process \in {"running", "killed"}
  /\ current_process' = "exited"
  /\ watched' = FALSE
  /\ cancel_text' = "Close"
  /\ \E exitCode \in {0, 1}, exception \in BOOLEAN :
       LET f == on_dsph_sim_finished(
                  [title |-> run_title, bar |-> run_progbar, done |-> simulation_done,
                   ws |-> widget_state, shown |-> run_shown], exitCode, exception)
       IN  /\ run' = [run EXCEPT !.exit = exitCode, !.exception = exception,
                                  !.fs = "none", !.raised = FALSE]
           /\ run_title' = f.title
           /\ run_progbar' = f.bar
           /\ simulation_done' = f.done
           /\ widget_state' = f.ws
           /\ run_shown' = f.shown
  /\ UNCHANGED <<timemax, total_particles_out, cancel_slots, fs_slots, run_file,
                 regvars, last, casevars, optvars>>

\* the solver writes a line to Run.out; its first line replaces the file
SolverWrites ==
  /\ current_process = "running"
  /\ \E l \in Lines :
       IF run_file.by # run.n
       THEN run_file' = [by |-> run.n, lines |-> <<l>>]
       ELSE /\ Len(run_file.lines) < MaxLines
            /\ run_file' = [run_file EXCEPT !.lines = Append(@, l)]
  /\ run' = [run EXCEPT !.fs = "none", !.raised = FALSE]
  /\ UNCHANGED <<simulation_done, timemax, total_particles_out, run_progbar,
                 run_title, cancel_text, run_shown, widget_state, current_process,
                 watched, cancel_slots, fs_slots, regvars, last, casevars,
                 optvars>>

\* run_watcher.directoryChanged, while the directory is watched; Run.out
\* may be unreadable at that moment, and is while it does not exist
DirectoryChanged ==
  /\ watched
  /\ \E readable \in BOOLEAN :
       /\ readable => run_file.by # 0
       /\ LET m == FsSlots(fs_slots,
                           [tm |-> timemax, out |-> total_particles_out,
                            bar |-> run_progbar, title |-> run_title,
                            raised |-> FALSE],
                           run_file.lines, readable)
          IN  /\ run' = [run EXCEPT !.raised = m.raised,
                                     !.fs = IF ~readable THEN "unreadable"
                                            ELSE IF run_file.lines = <<>> THEN "empty"
                                            ELSE "read"]
              /\ timemax' = m.tm
              /\ total_particles_out' = m.out
              /\ run_progbar' = m.bar
              /\ run_title' = m.title
  /\ UNCHANGED <<simulation_done, cancel_text, run_shown, widget_state,
                 current_process, watched, cancel_slots, fs_slots, run_file,
                 regvars, last, casevars, optvars>>

NextRun ==
  \/ on_ex_simulate
  \/ CancelClicked
  \/ ProcessFinished
  \/ SolverWrites
  \/ DirectoryChanged

SpecRun == InitSim /\ [][NextRun]_vars

----------------------------------------------------------------------------
(***************************************************************************)
(* The floating configuration dialog.  property4_configure builds it for   *)
(* the mk of the first selected object and runs it with exec_(): while it  *)
(* is open no other handler of the script runs.  A key str(mk) of          *)
(* data["floating_mks"] is written as mk.  floatings_window.closed tells   *)
(* how the dialog was closed last ("True" or "False" confirmed, "Cancel"), *)
(* props what was entered in it.                                           *)
(***************************************************************************)

\* the floating properties a user can enter, as far as they are told apart
FloatProps == {"massbody", "rhopbody"}

\* property4_configure(), up to floatings_window.exec_()
property4_configure ==
  /\ ~floatings_window.open
  /\ Len(selection) > 0
  /\ selection[1] \in DOMAIN simobjects
  /\ selection[1] # CaseLimits
  /\ floatings_window' = [open |-> TRUE, target_mk |-> simobjects[selection[1]].mk,
                          closed |-> "none", props |-> "none"]
  /\ UNCHANGED <<regvars, last, runvars, casevars, floating_mks, export_options,
                 additional_parameters>>

\* on_ok() with "False" chosen removes the key in place of writing it
on_ok_Keep(fm, target_mk, index, props) ==
  IF index = 1 THEN fm ELSE Put(fm, target_mk, props)

\* on_ok() of the dialog: index is is_floating_selector.currentIndex(),
\* 0 for "True" and 1 for "False"
on_ok(fm, target_mk, index, props) ==
  IF index = 1
  THEN IF target_mk \in DOMAIN fm THEN Pop(fm, target_mk) ELSE fm
  ELSE Put(fm, target_mk, props)

\* ok_button.clicked; float() of a text that is no number raises
\* ValueError before anything is written, and the dialog stays open
FloatOk ==
  /\ floatings_window.open
  /\ \E index \in {0, 1}, numbers \in BOOLEAN, props \in FloatProps :
       IF index = 0 /\ ~numbers
       THEN UNCHANGED <<floating_mks, floatings_window>>
       ELSE /\ floating_mks' = on_ok(floating_mks, floatings_window.target_mk,
                                     index, props)
            /\ floatings_window' =
                 [floatings_window EXCEPT !.open = FALSE, !.props = props,
                    !.closed = IF index = 0 THEN "True" ELSE "False"]
  /\ UNCHANGED <<regvars, last, runvars, casevars, export_options,
                 additional_parameters>>

\* cancel_button.clicked: floatings_window.reject()
FloatCancel ==
  /\ floatings_window.open
  /\ floatings_window' = [floatings_window EXCEPT !.open = FALSE,
                                                  !.closed = "Cancel"]
  /\ UNCHANGED <<regvars, last, runvars, casevars, floating_mks, export_options,
                 additional_parameters>>

\* the selection changes while the dialog is not open
SelectDialogClosed == ~floatings_window.open /\ TreeSelectionChanged

NextFloat ==
  \/ SelectDialogClosed
  \/ property4_configure
  \/ FloatOk
  \/ FloatCancel

SpecFloat == InitMove /\ [][NextFloat]_vars

(***************************************************************************)
(* The selection monitor: a thread that runs beside the event loop.  One   *)
(* step is one turn of its loop.  The rotations it resets belong to the    *)
(* objects of the document and are no part of the state held here; whether *)
(* the host still has a document named DSPH_Case is the host's to decide.  *)
(***************************************************************************)

\* the record of a turn of the monitor; col holds the parity of the turns in
\* a row, so that a turn that follows a turn is a step of its own
MonitorRan ==
  last' = [op |-> "monitor", row |-> -1,
           col |-> IF last.op = "monitor" THEN 1 - last.col ELSE 0,
           ab |-> FALSE, early |-> FALSE,
           dropped |-> FALSE, pruned |-> FALSE, again |-> FALSE,
           prevChanged |-> FALSE]

\* a monitor that takes out of data what is not selected
selection_monitor_Drops ==
  /\ widgets' = IF Len(selection) = 0 THEN Show(widgets, FALSE, FALSE, FALSE)
                ELSE widgets
  /\ simobjects' = [n \in DOMAIN simobjects \cap (Range(selection) \cup {CaseLimits})
                      |-> simobjects[n]]
  /\ widget_state' = widget_state
  /\ MonitorRan
  /\ UNCHANGED <<docObjects, inList, selection, export_order, rowCount,
                 tableRows, simulation_done, timemax, total_particles_out,
                 run_progbar, run_title, cancel_text, run_shown, current_process,
                 watched, cancel_slots, fs_slots, run_file, run, casevars, optvars>>

\* one turn of "while True:" of selection_monitor()
selection_monitor ==
  /\ widgets' = IF Len(selection) = 0 THEN Show(widgets, FALSE, FALSE, FALSE)
                ELSE widgets
  /\ \E opened \in BOOLEAN :
       widget_state' = IF opened THEN widget_state ELSE "no case"
  /\ MonitorRan
  /\ UNCHANGED <<docObjects, inList, selection, simobjects, export_order, rowCount,
                 tableRows, simulation_done, timemax, total_particles_out,
                 run_progbar, run_title, cancel_text, run_shown, current_process,
                 watched, cancel_slots, fs_slots, run_file, run, casevars, optvars>>

\* a saved case whose document holds a box and a fill box
InitMonitor ==
  /\ InitRegistry({CaseLimits} \cup Boxes \cup FillBoxes)
  /\ InitRunIn("gencase done")
  /\ InitSaved

NextMonitor ==
  \/ selection_monitor
  \/ TreeSelectionChanged
  \/ AddClicked
  \/ RemoveClicked
  \/ on_ex_simulate
  \/ CancelClicked
  \/ ProcessFinished

SpecMonitor == InitMonitor /\ [][NextMonitor]_vars

(***************************************************************************)
(* Save Case and Load Case.  A project folder holds casedata.dsphdata, the *)
(* pickled data, beside DSPH_Case.FCStd, the document; the document file   *)
(* is taken to be written with the case data by on_save_case, as the       *)
(* specification of the persisted project says.                            *)
(***************************************************************************)

\* on_save_case(): save_name comes from the dialog for a case without a
\* path, "" when the dialog is cancelled; GenCase runs when its path is
\* set, and succeeds or fails
on_save_case ==
  \E save_name \in (IF project_path = "" /\ project_name = ""
                     THEN Folders \cup {""} ELSE {project_path}) :
    IF HasSpace(save_name)
    THEN /\ CaseRan("save", save_name, "rejected", FALSE, FALSE, FALSE)
         /\ UNCHANGED <<regvars, last, runvars, project_path, project_name,
                        gencase_done, disk, total_export_parts, export,
                        optvars>>
    ELSE IF save_name = ""
    THEN /\ CaseRan("save", save_name, "cancelled", FALSE, FALSE, FALSE)
         /\ UNCHANGED <<regvars, last, runvars, project_path, project_name,
                        gencase_done, disk, total_export_parts, export,
                        optvars>>
    ELSE \E gencase_path_set \in BOOLEAN :
         \E generated \in (IF gencase_path_set THEN BOOLEAN ELSE {FALSE}) :
           /\ project_path' = save_name
           /\ project_name' = NameOf(save_name)
           /\ gencase_done' = generated
           /\ widget_state' = IF generated THEN "gencase done" ELSE widget_state
           /\ disk' = [disk EXCEPT ![save_name] =
                         Folder(TRUE, TRUE,
                                [objects |-> docObjects, inList |-> inList],
                                Pickle(simobjects, export_order, simulation_done,
                                       timemax, total_particles_out, generated,
                                       floating_mks, export_options,
                                       additional_parameters),
                                @.parts)]
           /\ CaseRan("save", save_name, "saved", gencase_path_set, FALSE, FALSE)
           /\ UNCHANGED <<regvars, last, simulation_done, timemax,
                          total_particles_out, run_progbar, run_title, cancel_text,
                          run_shown, current_process, watched, cancel_slots,
                          fs_slots, run_file, run, total_export_parts, export,
                          optvars>>

\* a test for the document file that always finds it
FCStdFound_Always(d, folder) == TRUE

\* os.path.isfile(load_path_project_folder + "/DSPH_Case.FCStd")
FCStdFound(d, folder) == d[folder].fcstd

\* on_load_case(): the dialog offers the casedata.dsphdata files there are,
\* loadName is "" when it is cancelled; the user may refuse to close the
\* open documents; utils.check_executables finds the executables or not
on_load_case ==
  \E folder \in {f \in Folders : disk[f].saved} \cup {""} :
    IF folder = ""
    THEN /\ CaseRan("load", folder, "cancelled", FALSE, FALSE, FALSE)
         /\ UNCHANGED <<regvars, last, runvars, project_path, project_name,
                        gencase_done, disk, total_export_parts, export,
                        optvars>>
    ELSE IF ~FCStdFound(disk, folder)
    THEN /\ CaseRan("load", folder, "refused", FALSE, FALSE, FALSE)
         /\ UNCHANGED <<regvars, last, runvars, project_path, project_name,
                        gencase_done, disk, total_export_parts, export,
                        optvars>>
    ELSE \E success \in BOOLEAN :
         IF ~success
         THEN /\ CaseRan("load", folder, "kept", FALSE, FALSE, FALSE)
              /\ UNCHANGED <<regvars, last, runvars, project_path, project_name,
                             gencase_done, disk, total_export_parts, export,
                             optvars>>
         ELSE LET load_disk_data == disk[folder].blob
              IN  /\ docObjects' = disk[folder].doc.objects
                  /\ inList' = disk[folder].doc.inList
                  /\ selection' = <<>>
                  /\ simulation_done' = load_disk_data.simulation_done
                  /\ timemax' = load_disk_data.timemax
                  /\ total_particles_out' = load_disk_data.total_particles_out
                  /\ gencase_done' = load_disk_data.gencase_done
                  /\ floating_mks' = load_disk_data.floating_mks
                  /\ export_options' = load_disk_data.export_options
                  /\ additional_parameters' = load_disk_data.additional_parameters
                  /\ project_path' = folder
                  /\ project_name' = NameOf(folder)
                  /\ \E correct_execs \in BOOLEAN :
                       widget_state' = IF ~correct_execs THEN "execs not correct"
                                       ELSE IF simulation_done' THEN "simulation done"
                                       ELSE "simulation not done"
                  /\ \E h \in on_tree_item_selection_change(
                                 Handler(load_disk_data.simobjects,
                                         load_disk_data.export_order,
                                         rowCount, tableRows, widgets),
                                 <<>>, disk[folder].doc.objects,
                                 disk[folder].doc.inList) :
                       Leaves(h) /\ Ran("load", -1, -1, h)
                  /\ CaseRan("load", folder, "loaded", FALSE, TRUE, TRUE)
                  /\ UNCHANGED <<run_progbar, run_title, cancel_text, run_shown,
                                 current_process, watched, cancel_slots, fs_slots,
                                 run_file, run, disk, total_export_parts, export,
                                 floatings_window>>

\* DSPH_Case.FCStd of a project folder is moved away or deleted
DocumentFileRemoved ==
  /\ \E folder \in Folders :
       /\ disk[folder].fcstd
       /\ disk' = [disk EXCEPT ![folder].fcstd = FALSE]
  /\ UNCHANGED <<regvars, last, runvars, project_path, project_name,
                 gencase_done, total_export_parts, export, case, optvars>>

NextCase ==
  \/ on_new_case
  \/ on_save_case
  \/ on_load_case
  \/ DocumentFileRemoved
  \/ TreeSelectionChanged
  \/ AddClicked

SpecCase == Init /\ [][NextCase]_vars

(***************************************************************************)
(* The export to VTK.  on_export scans the _Out directory of the case for  *)
(* Part_<N>.bi4 files, sets the range of the bar and starts the export     *)
(* process; the process reports the parts it writes and finishes, or is    *)
(* killed from the cancel button.                                          *)
(***************************************************************************)

MaxExports == 2   \* exports started in a session

\* the Part_<N>.bi4 files of the _Out directory of the case in data
PartFiles == IF project_path \in Folders THEN disk[project_path].parts ELSE {}

\* the loop over glob.glob(... "Part_*.bi4"):
\* total = max(int(N), total) for each file
RECURSIVE ScanParts(_, _)
ScanParts(files, total) ==
  IF files = {} THEN total
  ELSE LET N == CHOOSE x \in files : TRUE
       IN  ScanParts(files \ {N}, IF N > total THEN N ELSE total)

\* the solver writes a Part_<N>.bi4 file
PartFileWritten ==
  /\ current_process = "running"
  /\ project_path \in Folders
  /\ \E N \in PartNums \ PartFiles :
       disk' = [disk EXCEPT ![project_path].parts = @ \cup {N}]
  /\ UNCHANGED <<regvars, last, runvars, project_path, project_name,
                 gencase_done, total_export_parts, export, case, optvars>>

\* the texts a user can leave in the line edit of the export options and
\* in that of the additional parameters
ExportTexts == {"", "x", "-o -v"}
ParamTexts == {"", "-p"}

\* len(text)
TextLen(text) ==
  IF text = "" THEN 0 ELSE IF text = "x" THEN 1 ELSE IF text = "-p" THEN 2 ELSE 5

\* text.split(" ")
Split(text) == IF text = "-o -v" THEN <<"-o", "-v">> ELSE <<text>>

\* static_params_exp: "-dirin <case>_Out/" and "-savevtk <case>_Out/PartAll"
static_params_exp == <<"-dirin", "-savevtk">>

\* final_params_exp of on_export
final_params_exp(options, parameters) ==
  static_params_exp \o (IF TextLen(options) < 2 THEN <<>> ELSE Split(parameters))

\* on_exportopts(): the dialog is confirmed with a text, or cancelled
on_exportopts ==
  /\ \E text \in ExportTexts, ok \in BOOLEAN :
       export_options' = IF ok THEN text ELSE export_options
  /\ UNCHANGED <<regvars, last, runvars, casevars, floating_mks, floatings_window,
                 additional_parameters>>

\* on_additional_parameters(): the dialog is confirmed with a text, or
\* cancelled
on_additional_parameters ==
  /\ \E text \in ParamTexts, ok \in BOOLEAN :
       additional_parameters' = IF ok THEN text ELSE additional_parameters
  /\ UNCHANGED <<regvars, last, runvars, casevars, floating_mks, floatings_window,
                 export_options>>

\* the export button; the export process starts or fails to start.  The
\* button is taken to be disabled while an export runs (the "export start"
\* state of guiutils.widget_state_config).
on_export ==
  /\ export.proc \notin {"running", "killed"}
  /\ export.n < MaxExports
  /\ widget_state' = "export start"
  /\ total_export_parts' = ScanParts(PartFiles, total_export_parts)
  /\ \E started \in BOOLEAN :
       export' = [n |-> export.n + 1, max |-> total_export_parts', value |-> 0,
                  shown |-> TRUE, proc |-> IF started THEN "running" ELSE "failed",
                  args |-> final_params_exp(export_options, additional_parameters)]
  /\ CaseRan("export", project_path, "started", FALSE, FALSE, FALSE)
  /\ UNCHANGED <<regvars, last, simulation_done, timemax, total_particles_out,
                 run_progbar, run_title, cancel_text, run_shown, current_process,
                 watched, cancel_slots, fs_slots, run_file, run, project_path,
                 project_name, gencase_done, disk, optvars>>

\* readyReadStandardOutput: on_stdout_ready() reads "PartAll_<N>.vtk"
ExportStdout ==
  /\ export.proc = "running"
  /\ \E current_part \in PartNums :
       export' = [export EXCEPT !.value = IF current_part > export.max
                                          THEN @ ELSE current_part]
  /\ UNCHANGED <<regvars, last, runvars, project_path, project_name,
                 gencase_done, disk, total_export_parts, case, optvars>>

\* export_process.finished: on_export_finished(exitCode)
ExportFinished ==
  /\ export.proc \in {"running", "killed"}
  /\ export' = [export EXCEPT !.proc = "exited", !.shown = FALSE]
  /\ widget_state' = "export finished"
  /\ UNCHANGED <<regvars, last, simulation_done, timemax, total_particles_out,
                 run_progbar, run_title, cancel_text, run_shown, current_process,
                 watched, cancel_slots, fs_slots, run_file, run, project_path,
                 project_name, gencase_done, disk, total_export_parts, case,
                 optvars>>

\* export_button_cancel.clicked, while the export dialog is shown: the
\* on_cancel closures connected by every on_export so far all kill the
\* current export process, apply "export cancel" and hide the dialog
ExportCancelClicked ==
  /\ export.shown
  /\ export' = [export EXCEPT !.proc = IF @ = "running" THEN "killed" ELSE @,
                              !.shown = FALSE]
  /\ widget_state' = "export cancel"
  /\ UNCHANGED <<regvars, last, simulation_done, timemax, total_particles_out,
                 run_progbar, run_title, cancel_text, run_shown, current_process,
                 watched, cancel_slots, fs_slots, run_file, run, project_path,
                 project_name, gencase_done, disk, total_export_parts, case,
                 optvars>>

NextExport ==
  \/ on_ex_simulate
  \/ ProcessFinished
  \/ PartFileWritten
  \/ on_export
  \/ ExportStdout
  \/ ExportFinished
  \/ ExportCancelClicked

SpecExport == InitSim /\ [][NextExport]_vars

\* the export with its options
NextOptions ==
  \/ on_exportopts
  \/ on_additional_parameters
  \/ on_export
  \/ ExportFinished
  \/ ExportCancelClicked

SpecOptions == InitSim /\ [][NextOptions]_vars

(***************************************************************************)
(* A session that simulates a saved case and saves it again.               *)
(***************************************************************************)

NextSession ==
  \/ on_ex_simulate
  \/ ProcessFinished
  \/ CancelClicked
  \/ on_save_case
  \/ on_load_case

SpecSession == InitSim /\ [][NextSession]_vars

----------------------------------------------------------------------------
(* Properties of the object registry *)

Position(s, x) == IF InSeq(s, x) THEN CHOOSE i \in 1..Len(s) : s[i] = x ELSE 0
Count(s, x) == Cardinality({i \in 1..Len(s) : s[i] = x})

\* C3: on_tree_item_selection_change run again, with the document and the
\* selection as the run before left them, changes neither
\* data['simobjects'] nor data['export_order']
C3_ReconcileIdempotent ==
  [][(last'.op = "reconcile" /\ last'.again)
       => (simobjects' = simobjects /\ export_order' = export_order)]_vars

C3_Witness ==
  /\ last.op = "reconcile" /\ last.again /\ last.prevChanged
  /\ Len(export_order) >= 2

\* C4: after every completed on_tree_item_selection_change every identifier
\* of data['export_order'] is a key of data['simobjects'] and names an
\* object of the document
C4_OrderIsBacked ==
  EndsInReconcile(last) =>
    \A i \in 1..Len(export_order) :
      export_order[i] \in DOMAIN simobjects /\ export_order[i] \in docObjects

C4_Witness ==
  /\ last.op = "reconcile" /\ ~last.ab /\ last.dropped
  /\ Len(export_order) >= 2

\* C5, as claimed: Case_Limits is never an element of data['export_order']
C5_NeverInExportOrder == ~InSeq(export_order, CaseLimits)

\* C5, amended: Case_Limits is never a row of the displayed order list,
\* although data['export_order'] holds it
C5_NeverListed == ~InSeq(tableRows, CaseLimits)

C5_Witness ==
  /\ EndsInReconcile(last) /\ ~last.early
  /\ InSeq(export_order, CaseLimits)
  /\ Len(tableRows) >= 2

\* C6: Case_Limits stays a key of data['simobjects']
C6_CaseLimitsStays == CaseLimits \in DOMAIN simobjects

\* C7: after every run of on_tree_item_selection_change no identifier of
\* data['export_order'] names an object that has a parent
C7_NoParentLeft ==
  EndsInReconcile(last) =>
    \A i \in 1..Len(export_order) : export_order[i] \notin inList

\* C8: a move-up click on the first row and a move-down click on the last
\* row change neither data['export_order'] nor data['simobjects']
C8_BoundaryClickNoOp ==
  [][(/\ last'.op = "click"
      /\ \/ last'.col = 1 /\ last'.row = 0
         \/ last'.col = 2 /\ last'.row = Len(tableRows) - 1)
       => (export_order' = export_order /\ simobjects' = simobjects)]_vars

\* the selected objects add_object_to_sim is to register
NewlyAdded == {n \in Range(selection) :
                 n # CaseLimits /\ n \notin inList /\ n \notin DOMAIN simobjects}

\* what add_object_to_sim registers: never Case_Limits, never an object
\* with a parent, every other selected object once
C9_AddsOnlyNew ==
  /\ CaseLimits \notin DOMAIN simobjects => CaseLimits \notin DOMAIN simobjects'
  /\ \A n \in inList \ DOMAIN simobjects : n \notin DOMAIN simobjects'
  /\ \A n \in NewlyAdded : n \in DOMAIN simobjects' /\ Count(export_order', n) = 1
  /\ DOMAIN simobjects' \subseteq DOMAIN simobjects \cup NewlyAdded

\* C9, as claimed: add_object_to_sim registers neither Case_Limits nor an
\* object with a parent, leaves every registered object's entry and
\* position as they were, and registers every other selected object once,
\* appended at the end of data['export_order'] in selection order
C9_AddFrame ==
  [][last'.op = "add" =>
       /\ C9_AddsOnlyNew
       /\ \A n \in DOMAIN simobjects :
            /\ n \in DOMAIN simobjects' /\ simobjects'[n] = simobjects[n]
            /\ Position(export_order', n) = Position(export_order, n)
       /\ export_order' = export_order \o
                          SelectSeq(selection, LAMBDA n : n \in NewlyAdded)]_vars

\* the host object of n is deleted or has a parent
Stale(n) == n \notin docObjects \/ n \in inList

\* C9, amended: add_object_to_sim registers neither Case_Limits nor an
\* object with a parent and registers every other selected object once, at
\* the end of data['export_order'] in selection order; a registered object
\* keeps its entry and its place among the registered ones, unless the
\* on_tree_item_selection_change that ends the handler drops it because its
\* host object is deleted or has a parent
C9_AddKeepsLive ==
  [][last'.op = "add" =>
       LET new == SelectSeq(selection, LAMBDA n : n \in NewlyAdded)
           old == SelectSeq(export_order, LAMBDA n : InSeq(export_order', n))
       IN  /\ C9_AddsOnlyNew
           /\ \A n \in DOMAIN simobjects :
                \/ n \in DOMAIN simobjects' /\ simobjects'[n] = simobjects[n]
                \/ n \notin DOMAIN simobjects' /\ Stale(n)
           /\ \A n \in Range(export_order) :
                InSeq(export_order', n) \/ Stale(n)
           /\ export_order' = old \o new]_vars

C9_Witness ==
  /\ last.op = "add" /\ ~last.ab /\ last.pruned
  /\ Len(export_order) >= 2
  /\ export_order[Len(export_order)] \in Range(selection)

\* C2: a move-up click followed by a move-down click on the same
\* identifier, or a move-down click followed by a move-up click, leaves
\* data['export_order'] as it was, for every identifier displayed in a row
\* that is neither the first nor the last; the second click is on the row
\* that displays the identifier after the first
C2_RoundTrip ==
  \A k \in 2..(Len(tableRows) - 1) :
    \A c \in {<<1, 2>>, <<2, 1>>} :
      \A h1 \in on_cell_click(Current, k - 1, c[1], selection, docObjects, inList) :
        /\ InSeq(h1.rows, tableRows[k])
        /\ \A h2 \in on_cell_click(h1, Position(h1.rows, tableRows[k]) - 1, c[2],
                                    selection, docObjects, inList) :
             h2.eo = export_order

\* two registered objects of one kind hold the same mk number
Clash(so, a, b) ==
  /\ a # b /\ a \in DOMAIN so /\ b \in DOMAIN so
  /\ Lower(so[a].kind) = Lower(so[b].kind)
  /\ so[a].mk = so[b].mk

KindRange(kind) == IF kind = "fluid" THEN 0..10 ELSE 0..240

MkOfKind(so, kind) == {so[n].mk : n \in {m \in DOMAIN so : Lower(so[m].kind) = kind}}

\* C1: add_object_to_sim and remove_object_from_sim never make two
\* registered objects of one kind hold the same mk number, unless that
\* number is the fallback 0 and every number of the kind's range (fluid
\* 0-10, bound 0-240) is taken
C1_MkUnique ==
  [][simobjects' # simobjects =>
       \A a, b \in DOMAIN simobjects' :
         (Clash(simobjects', a, b) /\ ~Clash(simobjects, a, b)) =>
           /\ simobjects'[a].mk = 0
           /\ KindRange(Lower(simobjects'[a].kind))
                \subseteq MkOfKind(simobjects', Lower(simobjects'[a].kind))]_vars

C1_Witness ==
  /\ last.op = "add"
  /\ \E a, b \in DOMAIN simobjects : Clash(simobjects, a, b)
  /\ \E a \in Boxes : a \in DOMAIN simobjects

----------------------------------------------------------------------------
(* Properties of the run monitor *)

\* C10: once a running simulation has been cancelled, the monitor does not
\* show Complete or Error for that run, the run does not count as done, and
\* the progress value, data['timemax'] and data['total_particles_out'] stay
\* as they are
C10_CancelIsFinal ==
  [][(run.cancelled /\ run'.n = run.n) =>
       /\ run_title'.text \notin {"Complete", "Error"}
       /\ ~simulation_done'
       /\ run_progbar' = run_progbar
       /\ timemax' = timemax
       /\ total_particles_out' = total_particles_out]_vars

\* C11: once a started simulation has taken a terminal transition (exit,
\* start failure or cancellation) no watch of its output directory remains:
\* the watch is registered only while the solver runs uncancelled
C11_NoWatchAfterTerminal ==
  watched => (current_process = "running" /\ ~run.cancelled)

\* the step in which the solver process of the current run ends
Finishes ==
  current_process \in {"running", "killed"} /\ current_process' = "exited"

Errored ==
  /\ run_title = Title("Error", 0)
  /\ run_progbar = 0
  /\ widget_state = "sim error"
  /\ ~simulation_done

Parsed(kind) ==
  /\ run'.fs = "read"
  /\ run_file.lines[Len(run_file.lines)].kind = kind

\* C14: when on_fs_change processes a last line holding Part_ while
\* data["timemax"] is still -1 (no TimeMax= line seen), an error is raised
\* and no progress is written to the bar or to the title
C14_UnsetTimemaxRaises ==
  [][(Parsed("Part") /\ timemax' = -1) =>
       /\ run'.raised
       /\ run_progbar' = run_progbar
       /\ run_title' = run_title]_vars

\* C15: when on_fs_change reads a log whose TimeMax= line gives 10 and
\* whose last line is the Part_ line of time 5, the progress written to the
\* bar is (5 * 100) / 10 = 50
C15_ProgressOfPart ==
  [][(Parsed("Part") /\ FirstTimeMax(1, run_file.lines) = <<10>>) =>
       run_progbar' = 50]_vars

\* C16: a notification that finds Run.out unreadable is a no-op: no
\* exception leaves on_fs_change and the progress, data["timemax"],
\* data["total_particles_out"] and the run state stay as they were
C16_UnreadableIsNoOp ==
  [][run'.fs = "unreadable" =>
       /\ ~run'.raised
       /\ UNCHANGED <<run_progbar, run_title, timemax, total_particles_out,
                      simulation_done, current_process, watched, widget_state>>]_vars

\* C20: data["timemax"] changes only in a step in which on_fs_change reads
\* Run.out while it is -1, and then takes the value of the first TimeMax=
\* line of the file; once it is not -1 no step changes it
C20_TimemaxSetOnce ==
  [][/\ timemax # -1 => timemax' = timemax
     /\ timemax' # timemax =>
          (run'.fs = "read" /\ FirstTimeMax(1, run_file.lines) = <<timemax'>>)]_vars

\* a log was just read that holds a TimeMax= line other than the value kept
C20_Witness ==
  /\ run.fs = "read"
  /\ timemax # -1
  /\ \E i \in 1..Len(run_file.lines) :
       run_file.lines[i].kind = "TimeMax" /\ run_file.lines[i].v # timemax

(***************************************************************************)
(* Properties of the export and of save and load                           *)
(***************************************************************************)

\* the largest number of a set of part files, 0 for none
Largest(files) ==
  IF files = {} THEN 0 ELSE CHOOSE x \in files : \A y \in files : y <= x

\* C17: every on_export leaves as upper bound of the export progress the
\* largest N of the Part_<N>.bi4 files present when it runs, 0 for none,
\* whatever was exported or simulated before
C17_BoundIsLargestPresent ==
  [][(case'.seq # case.seq /\ case'.op = "export") =>
       export'.max = Largest(PartFiles)]_vars

\* the step just taken ran the handler op
CaseStep(op) == case'.seq # case.seq /\ case'.op = op

\* C18: an on_save_case whose save path holds a space changes neither
\* data["project_path"], data["project_name"] nor data["gencase_done"],
\* creates or writes nothing on disk and starts no GenCase process
C18_SpaceRejectedFirst ==
  [][(CaseStep("save") /\ case'.name \in SpacedFolders) =>
       /\ UNCHANGED <<project_path, project_name, gencase_done, disk>>
       /\ ~case'.gencase]_vars

\* a save was tried on a path with a space, chosen in the dialog
C18_Witness ==
  /\ case.op = "save"
  /\ case.name \in SpacedFolders
  /\ case.outcome = "rejected"
  /\ project_path = ""

\* C19: an on_load_case for a project folder without DSPH_Case.FCStd leaves
\* the data and the open document as they were, closes no document and
\* does not read casedata.dsphdata
C19_NoDocumentNoLoad ==
  [][(CaseStep("load") /\ case'.name \in Folders /\ ~disk[case'.name].fcstd) =>
       /\ UNCHANGED <<simobjects, export_order, simulation_done, timemax,
                      total_particles_out, gencase_done, project_path, project_name>>
       /\ UNCHANGED <<docObjects, inList, selection>>
       /\ ~case'.closed
       /\ ~case'.read]_vars

\* a load was refused whose blob differs from the data in use
C19_Witness ==
  /\ case.op = "load"
  /\ case.name \in Folders
  /\ ~disk[case.name].fcstd
  /\ disk[case.name].blob.simobjects # simobjects

(***************************************************************************)
(* Further properties of the run monitor                                   *)
(***************************************************************************)

\* C27: when a simulation is started, data['timemax'] is -1 again, whatever
\* TimeMax the log of an earlier run gave
C27_TimemaxResetAtStart ==
  [][run'.n # run.n => timemax' = -1]_vars

\* C28: however many simulations were started, the cancel button holds one
\* connection of the cancel handler and the watcher one connection of the
\* parser, so that a click or a notification runs it once
C28_OneSlotEach ==
  cancel_slots <= 1 /\ fs_slots <= 1

\* the cancel button is pressed
CancelPressed ==
  run_shown /\ ~run_shown' /\ run'.n = run.n /\ run'.exit = run.exit

\* C29: the cancel handler kills the solver and applies the state
\* 'sim cancel' only when the button is pressed while the solver runs;
\* pressed after the solver has finished, the button only hides the dialog
C29_CloseOnlyHides ==
  [][(CancelPressed /\ current_process # "running") =>
       /\ widget_state' = widget_state
       /\ current_process' = current_process
       /\ simulation_done' = simulation_done
       /\ ~run'.cancelled]_vars

\* C30: data['simulation_done'] is True only while data['gencase_done'] is:
\* a save that generates the case anew, or fails to, leaves no simulation
\* result standing without a generated case
C30_DoneNeedsGencase ==
  simulation_done => gencase_done

(***************************************************************************)
(* Further properties of the object registry                               *)
(***************************************************************************)

\* C21: a run of add_object_to_sim, remove_object_from_sim or on_cell_click
\* that changes data['simobjects'] or data['export_order'] rebuilds the
\* order table before it returns: it reaches "Update dsph objects list",
\* whatever is selected
C21_MutationRebuildsList ==
  [][(/\ last'.op \in {"add", "remove", "click"}
      /\ (simobjects' # simobjects \/ export_order' # export_order))
       => (~last'.ab /\ ~last'.early)]_vars

\* the identifiers that are not at the position they had
Moved ==
  {x \in Range(export_order) \cup Range(export_order') :
     Position(export_order', x) # Position(export_order, x)}

\* C25: a click on a move cell only permutes data['export_order']: the
\* same identifiers, none twice, only the identifier displayed in the
\* clicked row and one neighbour at another position, and
\* data['simobjects'] as it was
C25_MoveOnlyPermutes ==
  [][(last'.op = "click" /\ last'.col \in {1, 2}) =>
       /\ simobjects' = simobjects
       /\ Len(export_order') = Len(export_order)
       /\ Range(export_order') = Range(export_order)
       /\ \A x \in Range(export_order') : Count(export_order', x) = 1
       /\ \/ Moved = {}
          \/ /\ Cardinality(Moved) = 2
             /\ last'.row < Len(tableRows)
             /\ tableRows[last'.row + 1] \in Moved
             /\ \A x, y \in Moved :
                  Position(export_order', x) - Position(export_order', y)
                    \in {-1, 0, 1}]_vars

\* C26: Case_Limits is the first element of data['export_order'] and the
\* table displays in row r the identifier data['export_order'][r + 1], the
\* one a click on row r moves
C26_RowShowsOrder ==
  /\ Len(export_order) >= 1
  /\ export_order[1] = CaseLimits
  /\ \A r \in 0..(Len(tableRows) - 1) :
       /\ r + 2 <= Len(export_order)
       /\ tableRows[r + 1] = export_order[r + 2]

(***************************************************************************)
(* Properties of the dialogs                                               *)
(***************************************************************************)

\* the step closes the floating configuration dialog
DialogCloses == floatings_window.open /\ ~floatings_window'.open

\* C22: the dialog closes with the first selected object still that of
\* its opening.  Confirmed with "True" it leaves the entered properties at
\* the mk of that object, confirmed with "False" it leaves no key for that
\* mk, cancelled it leaves data["floating_mks"] as it was; every other key
\* keeps its value
C22_FloatingKeyOnly ==
  [][DialogCloses =>
       LET mk == floatings_window.target_mk
           how == floatings_window'.closed
       IN  /\ Len(selection) > 0 /\ selection[1] \in DOMAIN simobjects
           /\ mk = simobjects[selection[1]].mk
           /\ \A k \in (DOMAIN floating_mks \cup DOMAIN floating_mks') \ {mk} :
                /\ k \in DOMAIN floating_mks /\ k \in DOMAIN floating_mks'
                /\ floating_mks'[k] = floating_mks[k]
           /\ how = "True" =>
                (mk \in DOMAIN floating_mks'
                 /\ floating_mks'[mk] = floatings_window'.props)
           /\ how = "False" => mk \notin DOMAIN floating_mks'
           /\ how = "Cancel" => floating_mks' = floating_mks]_vars

\* a dialog took the key of one mk away while two other mk hold properties
C22_Witness ==
  /\ ~floatings_window.open
  /\ floatings_window.closed = "False"
  /\ Cardinality(DOMAIN floating_mks) >= 2
  /\ \E a, b \in DOMAIN floating_mks : floating_mks[a] # floating_mks[b]

\* C23: on_export starts the export executable with the two directory
\* arguments followed by data["export_options"] split at the spaces, and
\* by nothing when the export options hold fewer than 2 characters
C23_ExportUsesItsOptions ==
  [][CaseStep("export") =>
       export'.args = static_params_exp \o
                        (IF TextLen(export_options) < 2 THEN <<>>
                         ELSE Split(export_options))]_vars

MonitorTurn == last'.op = "monitor" /\ last' # last

\* C24: a turn of the selection monitor, wherever it falls between the
\* handlers of the event loop, changes nothing of data: neither
\* data['simobjects'] nor data['export_order'] nor a field of the run state
C24_MonitorLeavesData ==
  [][MonitorTurn =>
       UNCHANGED <<simobjects, export_order, simulation_done, timemax,
                   total_particles_out, gencase_done, project_path, project_name,
                   floating_mks, export_options, additional_parameters,
                   current_process, total_export_parts>>]_vars

\* the monitor has run while objects are registered, nothing is selected
\* and a solver runs
C24_Witness ==
  /\ last.op = "monitor"
  /\ Len(selection) = 0
  /\ ~widgets.table
  /\ Cardinality(DOMAIN simobjects) >= 2
  /\ current_process = "running"

====
